---- MODULE Spec2Model ----
(***************************************************************************)
(* State-machine model of lib/scm-simulator.ts (class SCMSimulator): the   *)
(* product catalog, the transaction log and the operations on them.        *)
(***************************************************************************)
EXTENDS Integers, Sequences, FiniteSets, TLC

(***************************************************************************)
(* Bounds of the model and the input sets of the operations.               *)
(***************************************************************************)
MaxLog == 2
MaxConcurrency == 2
NumCalls == 3
MaxOutbound == 3
MaxLines == 3
MaxTime == 2
MaxBatch == 2

CatalogIds == {"P001", "P002", "P003"}
UnknownId == "P999"
InputIds == {"P001", "P003", UnknownId}
Types == {"inbound", "outbound", "adjustment"}
Quantities == {-50, 0, 45}
Reasons == {"Customer order"}
RandomSuffixes == {0}
ChaosIds == {"P003", UnknownId}
ChaosQuantities == {1, 10}
ForecastDays == {30}
ConcQuantities == {30, 45}
ConcTypes == {"inbound", "outbound"}
ForecastQuantities == {1, 2, 10}
ForecastHorizons == {7, 30}
LedgerIds == {"P001", "P003", UnknownId}
LedgerQuantities == {151, 800, 850}
LedgerTypes == {"inbound", "outbound"}
GetterIds == {"P001", UnknownId}
GetterUpdateIds == {"P001", "P003"}
GetterQuantities == {45}
GetterTypes == {"inbound", "outbound"}
HistoryArgs == {<<>>, <<"">>, <<"P001">>, <<"P003">>}

AdvisorIds == {"P003", UnknownId}
AdvisorQuantities == {-40, -1, 45}

GeneratorDomains == {"scm", "inventory"}
GeneratorTestTypes == {"e2e"}
GeneratorSpecs == {"stock update"}
CollaboratorErrors == {"rejected", "unreachable", "timeout"}

\* the scenario of movements made around a chaosTest run, with the clock
ClockQuantities == {10}
ClockSuffixes == {0, 1}

\* the scenario of the concurrent-orders test: 50 orders of 5 against stock 100
InitialStock == 100
ConcurrentOrders == 50
OrderQuantity == 5
ForecastWindow == 10

(***************************************************************************)
(* The program's state.                                                    *)
(***************************************************************************)
VARIABLES products, transactions, now, chaos, ret, calls, held, generator

vars == <<products, transactions, now, chaos, ret, calls, held, generator>>

sampleProducts ==
  [p \in CatalogIds |->
     CASE p = "P001" -> [id |-> "P001", name |-> "Bolt M8x20mm", sku |-> "BOLT-M8-20",
                         stock |-> 1000, safetyStock |-> 200, leadTimeDays |-> 7,
                         price |-> 10]
       [] p = "P002" -> [id |-> "P002", name |-> "Stainless sheet 1mm", sku |-> "STEEL-SS-1MM",
                         stock |-> 500, safetyStock |-> 100, leadTimeDays |-> 14,
                         price |-> 5000]
       [] p = "P003" -> [id |-> "P003", name |-> "IC-2023", sku |-> "IC-2023-100",
                         stock |-> 50, safetyStock |-> 20, leadTimeDays |-> 30,
                         price |-> 15000]]

\* products.get(productId) !== undefined
Has(P, productId) == productId \in DOMAIN P

\* variant: every kind of movement is added
newStockOfAlwaysAdds(stock, quantity, type) == stock + quantity

\* stock + (type === 'outbound' ? -quantity : quantity)
newStockOf(stock, quantity, type) ==
  stock + (IF type = "outbound" THEN 0 - quantity ELSE quantity)

\* variant: the check of the new stock is missing
RefusedNever(newStock) == FALSE

\* the business rule: the update is refused when the new stock is negative
Refused(newStock) == newStock < 0

\* variant: the log is overwritten by the new entry
PushReplace(T, t) == <<t>>

\* this.transactions.push(t)
Push(T, t) == Append(T, t)

\* variant: the signed change is recorded instead of the magnitude
MakeTransactionSigned(productId, quantity, type, reason, time, rnd) ==
  [id |-> [time |-> time, rnd |-> rnd],
   productId |-> productId,
   type |-> type,
   quantity |-> IF type = "outbound" THEN 0 - quantity ELSE quantity,
   timestamp |-> time,
   reason |-> reason]

\* the transaction object built by updateStock
MakeTransaction(productId, quantity, type, reason, time, rnd) ==
  [id |-> [time |-> time, rnd |-> rnd],
   productId |-> productId,
   type |-> type,
   quantity |-> quantity,
   timestamp |-> time,
   reason |-> reason]

\* the three return values of updateStock; kind and message stand for the
\* message text, message holding the values interpolated into it
NotFoundResultOk(productId) ==
  [success |-> TRUE, kind |-> "NotFound", currentStock |-> 0,
   message |-> [productId |-> productId]]

NotFoundResult(productId) ==
  [success |-> FALSE, kind |-> "NotFound", currentStock |-> 0,
   message |-> [productId |-> productId]]

InsufficientResultNewStock(stock, quantity) ==
  [success |-> FALSE, kind |-> "InsufficientStock", currentStock |-> stock - quantity,
   message |-> [current |-> stock, requested |-> quantity]]

InsufficientResult(stock, quantity) ==
  [success |-> FALSE, kind |-> "InsufficientStock", currentStock |-> stock,
   message |-> [current |-> stock, requested |-> quantity]]

\* variant: the alert is also raised at exactly the safety stock
UpdatedResultAtOrBelow(newStock, safetyStock) ==
  [success |-> TRUE, kind |-> "Updated", currentStock |-> newStock,
   message |-> [alert |-> newStock <= safetyStock, safetyStock |-> safetyStock]]

\* the return value of an accepted update; alert: the message ends with the
\* below-safety-stock text
UpdatedResult(newStock, safetyStock) ==
  [success |-> TRUE, kind |-> "Updated", currentStock |-> newStock,
   message |-> [alert |-> newStock < safetyStock, safetyStock |-> safetyStock]]

\* variant: the safety stock of the product is overwritten together with its
\* stock
SetStockAndSafety(P, productId, newStock) ==
  [P EXCEPT ![productId].stock = newStock, ![productId].safetyStock = newStock]

\* product.stock = newStock, on the object stored in the Map
SetStock(P, productId, newStock) == [P EXCEPT ![productId].stock = newStock]

\* updateStock as a function of the state it reads: the new catalog, the new
\* log and the returned value
updateStock(P, T, productId, quantity, type, reason, time, rnd) ==
  IF ~Has(P, productId)
  THEN [products |-> P, transactions |-> T, result |-> NotFoundResult(productId)]
  ELSE LET product == P[productId]
           newStock == newStockOf(product.stock, quantity, type)
       IN IF Refused(newStock)
          THEN [products |-> P, transactions |-> T,
                result |-> InsufficientResult(product.stock, quantity)]
          ELSE [products |-> SetStock(P, productId, newStock),
                transactions |-> Push(T, MakeTransaction(productId, quantity, type,
                                                         reason, time, rnd)),
                result |-> UpdatedResult(newStock, product.safetyStock)]

\* ceil(a / b) for b > 0
Ceil(a, b) == 0 - ((0 - a) \div b)

RECURSIVE SumQuantity(_)
SumQuantity(s) == IF s = <<>> THEN 0 ELSE s[1].quantity + SumQuantity(Tail(s))

\* Array.prototype.slice(-n)
SliceLast(s, n) == IF Len(s) <= n THEN s ELSE SubSeq(s, Len(s) - n + 1, Len(s))

\* The inputs (sum, count, days) on which the double-precision value of
\* sum / count * days * 1.2 lies just above the exact integer product, so that
\* Math.ceil returns one more than the exact ceiling (IEEE-754 evaluation of
\* the expression over the quantities of this model).
FloatExcess ==
  {<<-55, 3, 7>>, <<-55, 3, 14>>, <<-49, 3, 30>>, <<-35, 3, 7>>,
   <<-35, 3, 14>>, <<5, 3, 7>>, <<5, 3, 14>>, <<10, 3, 7>>, <<10, 3, 14>>,
   <<20, 3, 7>>, <<20, 3, 14>>, <<40, 3, 7>>, <<40, 3, 14>>, <<65, 3, 7>>,
   <<65, 3, 14>>, <<1100, 3, 7>>, <<1100, 3, 14>>, <<1145, 3, 7>>,
   <<1145, 3, 14>>, <<1190, 3, 7>>, <<1190, 3, 14>>, <<2200, 3, 7>>,
   <<2200, 3, 14>>, <<2245, 3, 7>>, <<2245, 3, 14>>, <<2500, 3, 7>>,
   <<2500, 3, 14>>}

\* Math.ceil(avgDaily * days * 1.2), avgDaily = sum / count
CeilForecast(sum, count, days) ==
  Ceil(sum * days * 12, count * 10)
    + (IF <<sum, count, days>> \in FloatExcess THEN 1 ELSE 0)

\* variant: the outbound movements of every product are averaged
forecastDemandAllProducts(P, T, productId, days) ==
  IF ~Has(P, productId) THEN 0
  ELSE LET recentOutbound ==
             SliceLast(SelectSeq(T, LAMBDA t : t.type = "outbound"), ForecastWindow)
       IN IF Len(recentOutbound) = 0 THEN 0
          ELSE CeilForecast(SumQuantity(recentOutbound), Len(recentOutbound), days)

forecastDemand(P, T, productId, days) ==
  IF ~Has(P, productId) THEN 0
  ELSE LET recentOutbound ==
             SliceLast(SelectSeq(T, LAMBDA t : t.productId = productId /\ t.type = "outbound"),
                       ForecastWindow)
       IN IF Len(recentOutbound) = 0 THEN 0
          ELSE CeilForecast(SumQuantity(recentOutbound), Len(recentOutbound), days)

\* variant: the safety stock is left out of the required stock
getOrderRecommendationNoSafety(P, T, productId) ==
  IF ~Has(P, productId)
  THEN [shouldOrder |-> FALSE, recommendedQuantity |-> 0, kind |-> "NotFound",
        forecast |-> 0, required |-> 0]
  ELSE LET product == P[productId]
           forecast == forecastDemand(P, T, productId, product.leadTimeDays)
           requiredStock == forecast
       IN IF product.stock < requiredStock
          THEN [shouldOrder |-> TRUE, recommendedQuantity |-> requiredStock - product.stock,
                kind |-> "BelowRequired", forecast |-> forecast, required |-> requiredStock]
          ELSE [shouldOrder |-> FALSE, recommendedQuantity |-> 0,
                kind |-> "Sufficient", forecast |-> forecast, required |-> requiredStock]

getOrderRecommendation(P, T, productId) ==
  IF ~Has(P, productId)
  THEN [shouldOrder |-> FALSE, recommendedQuantity |-> 0, kind |-> "NotFound",
        forecast |-> 0, required |-> 0]
  ELSE LET product == P[productId]
           forecast == forecastDemand(P, T, productId, product.leadTimeDays)
           requiredStock == forecast + product.safetyStock
       IN IF product.stock < requiredStock
          THEN [shouldOrder |-> TRUE, recommendedQuantity |-> requiredStock - product.stock,
                kind |-> "BelowRequired", forecast |-> forecast, required |-> requiredStock]
          ELSE [shouldOrder |-> FALSE, recommendedQuantity |-> 0,
                kind |-> "Sufficient", forecast |-> forecast, required |-> requiredStock]

RECURSIVE Replay(_)

\* variant: only inbound movements are added, adjustments are subtracted
ReplayAdjustmentSubtracts(s) ==
  SumQuantity(SelectSeq(s, LAMBDA t : t.type = "inbound"))
    - SumQuantity(SelectSeq(s, LAMBDA t : t.type # "inbound"))

\* the forEach of validateIntegrity, starting from calculatedStock = 0
Replay(s) ==
  IF s = <<>> THEN 0
  ELSE LET t == s[Len(s)]
       IN Replay(SubSeq(s, 1, Len(s) - 1))
            + (IF t.type = "inbound" \/ t.type = "adjustment"
               THEN t.quantity ELSE 0 - t.quantity)

Abs(x) == IF x < 0 THEN 0 - x ELSE x

validateIntegrity(P, T, productId) ==
  IF ~Has(P, productId)
  THEN [isValid |-> FALSE, found |-> FALSE, currentStock |-> 0,
        calculatedStock |-> 0, difference |-> 0]
  ELSE LET calculatedStock == Replay(SelectSeq(T, LAMBDA t : t.productId = productId))
           difference == P[productId].stock - calculatedStock
       IN [isValid |-> Abs(difference) * 100 < 1, found |-> TRUE,
           currentStock |-> P[productId].stock,
           calculatedStock |-> calculatedStock, difference |-> difference]

\* Map iteration order is insertion order: P001, P002, P003
InsertionOrder == <<"P001", "P002", "P003">>

generateReport(P, T) ==
  LET ids == SelectSeq(InsertionOrder, LAMBDA p : p \in DOMAIN P)
  IN [products |-> [k \in 1..Len(ids) |-> P[ids[k]]],
      lowStockProducts |-> SelectSeq(ids, LAMBDA p : P[p].stock < P[p].safetyStock),
      orderRecommendations |->
        SelectSeq(ids, LAMBDA p : getOrderRecommendation(P, T, p).shouldOrder),
      totalTransactions |-> Len(T)]

(***************************************************************************)
(* The getters and what the caller holds afterwards.  getProduct and       *)
(* getAllProducts hand out the Product objects stored in the Map,          *)
(* getTransactionHistory() hands out the array this.transactions itself,   *)
(* getTransactionHistory(id) a filtered copy.  A reference is live while   *)
(* the simulator still stores the object; reset() stores new objects and a *)
(* new array, so what was handed out before keeps the value it had then.   *)
(***************************************************************************)

\* a reference to the Product object stored under productId
Ref(productId) == [live |-> TRUE, productId |-> productId]

\* the object a reference leads to, given the catalog P
Deref(P, r) == IF r.live THEN P[r.productId] ELSE r.value

\* the array a history result leads to, given the log T
DerefHistory(T, a) == IF a.live THEN T ELSE a.value

Undefined == [kind |-> "undefined"]

\* return this.products.get(productId)
getProduct(P, productId) ==
  IF Has(P, productId) THEN Ref(productId) ELSE Undefined

\* Array.from(this.products.values())
getAllProducts(P) ==
  LET ids == SelectSeq(InsertionOrder, LAMBDA p : p \in DOMAIN P)
  IN [k \in 1..Len(ids) |-> Ref(ids[k])]

\* the optional parameter: <<>> when omitted, <<id>> when given
Omitted == <<>>

\* if (productId): undefined and the empty string are falsy
Truthy(arg) == arg # Omitted /\ arg[1] # ""

getTransactionHistory(T, arg) ==
  IF Truthy(arg)
  THEN [live |-> FALSE, value |-> SelectSeq(T, LAMBDA t : t.productId = arg[1])]
  ELSE [live |-> TRUE]

NoHeld == [kind |-> "none"]

\* what the caller holds once reset() has replaced the stored objects and the
\* log array: the old objects and the old array, as they were
Detached(h) ==
  CASE h.kind = "product" ->
         [h EXCEPT !.object = [live |-> FALSE, value |-> Deref(products, h.object)]]
    [] h.kind = "products" ->
         [h EXCEPT !.objects = [k \in DOMAIN h.objects |->
                                  [live |-> FALSE, value |-> Deref(products, h.objects[k])]]]
    [] h.kind = "history" ->
         [h EXCEPT !.array = [live |-> FALSE, value |-> DerefHistory(transactions, h.array)]]
    [] OTHER -> h

NoChaos ==
  [pc |-> "idle", productId |-> "", concurrency |-> 0, i |-> 0,
   successCount |-> 0, failureCount |-> 0, initialStock |-> 0, startTime |-> 0]

NoRet == [op |-> "none"]

\* no generateTestFromSpec call is waiting for the text-generation service
NoRequest == [pc |-> "idle"]

Init ==
  /\ products = sampleProducts
  /\ transactions = <<>>
  /\ now = 0
  /\ chaos = NoChaos
  /\ ret = NoRet
  /\ calls = <<>>
  /\ held = NoHeld
  /\ generator = NoRequest

\* The callers await chaosTest before they issue their next call (tests and
\* example()), so an operation starts only when no chaosTest is in flight.
Schedulable == chaos.pc = "idle"

\* the log stays within maxLog movements when the call is made
Fits(maxLog, productId, quantity, type) ==
  Len(updateStock(products, transactions, productId, quantity, type, "", now, 0).transactions)
    <= maxLog

UpdateStockCall(productId, quantity, type, reason, rnd) ==
  LET r == updateStock(products, transactions, productId, quantity, type, reason, now, rnd)
  IN /\ Schedulable
     /\ products' = r.products
     /\ transactions' = r.transactions
     /\ ret' = [op |-> "updateStock", productId |-> productId, quantity |-> quantity,
                type |-> type, reason |-> reason, result |-> r.result]
     /\ UNCHANGED <<now, chaos, calls, held, generator>>

UpdateStock ==
  \E productId \in InputIds, quantity \in Quantities, type \in Types,
     reason \in Reasons, rnd \in RandomSuffixes :
       /\ Fits(MaxLog, productId, quantity, type)
       /\ UpdateStockCall(productId, quantity, type, reason, rnd)

ForecastDemandCall(productId, days) ==
  /\ Schedulable
  /\ ret' = [op |-> "forecastDemand", productId |-> productId, days |-> days,
             result |-> forecastDemand(products, transactions, productId, days)]
  /\ UNCHANGED <<products, transactions, now, chaos, calls, held, generator>>

ForecastDemand ==
  \E productId \in InputIds, days \in ForecastDays : ForecastDemandCall(productId, days)

GetOrderRecommendation ==
  \E productId \in InputIds :
    /\ Schedulable
    /\ ret' = [op |-> "getOrderRecommendation", productId |-> productId,
               result |-> getOrderRecommendation(products, transactions, productId)]
    /\ UNCHANGED <<products, transactions, now, chaos, calls, held, generator>>

\* variant: a reported difference is corrected in the catalog
ValidateIntegrityRepairs ==
  \E productId \in InputIds :
    LET r == validateIntegrity(products, transactions, productId)
    IN /\ Schedulable
       /\ ret' = [op |-> "validateIntegrity", productId |-> productId, result |-> r]
       /\ products' = IF r.found
                      THEN [products EXCEPT ![productId].stock = r.calculatedStock]
                      ELSE products
       /\ UNCHANGED <<transactions, now, chaos, calls, held, generator>>

ValidateIntegrity ==
  \E productId \in InputIds :
    /\ Schedulable
    /\ ret' = [op |-> "validateIntegrity", productId |-> productId,
               result |-> validateIntegrity(products, transactions, productId)]
    /\ UNCHANGED <<products, transactions, now, chaos, calls, held, generator>>

GenerateReport ==
  /\ Schedulable
  /\ ret' = [op |-> "generateReport", result |-> generateReport(products, transactions)]
  /\ UNCHANGED <<products, transactions, now, chaos, calls, held, generator>>

\* variant: the log survives the reset
ResetKeepsLog ==
  /\ chaos.pc = "idle"
  /\ products' = sampleProducts
  /\ ret' = [op |-> "reset"]
  /\ held' = Detached(held)
  /\ UNCHANGED <<transactions, now, chaos, calls, generator>>

\* reset(): used for test isolation, called when no chaosTest is in flight
Reset ==
  /\ chaos.pc = "idle"
  /\ products' = sampleProducts
  /\ transactions' = <<>>
  /\ ret' = [op |-> "reset"]
  /\ held' = Detached(held)
  /\ UNCHANGED <<now, chaos, calls, generator>>

\* chaosTest up to the first callback: the lookup and the locals initialStock
\* and startTime (the code never reads initialStock again; it is kept to state
\* what the run did to the stock)
ChaosTest ==
  \E productId \in ChaosIds, concurrency \in 0..MaxConcurrency :
    /\ chaos.pc = "idle"
    /\ IF ~Has(products, productId)
       THEN /\ ret' = [op |-> "chaosTest", productId |-> productId,
                       concurrency |-> concurrency, threw |-> TRUE, pending |-> FALSE]
            /\ UNCHANGED chaos
       ELSE /\ Len(transactions) + concurrency <= MaxLog
            /\ chaos' = [NoChaos EXCEPT !.pc = IF concurrency = 0 THEN "awaiting" ELSE "mapping",
                                        !.productId = productId,
                                        !.concurrency = concurrency,
                                        !.initialStock = products[productId].stock,
                                        !.startTime = now]
            /\ ret' = [op |-> "chaosTest", productId |-> productId,
                       concurrency |-> concurrency, threw |-> FALSE, pending |-> TRUE]
    /\ UNCHANGED <<products, transactions, now, calls, held, generator>>

\* variant: the callback does not count the refused movements
ChaosCallbackCallDropsFailures(quantity, rnd) ==
  LET r == updateStock(products, transactions, chaos.productId, quantity, "outbound",
                       "Chaos test " \o ToString(chaos.i + 1), now, rnd)
  IN /\ chaos.pc = "mapping"
     /\ products' = r.products
     /\ transactions' = r.transactions
     /\ chaos' = [chaos EXCEPT
                    !.i = @ + 1,
                    !.successCount = IF r.result.success THEN @ + 1 ELSE @,
                    !.pc = IF chaos.i + 1 = chaos.concurrency THEN "awaiting" ELSE "mapping"]
     /\ UNCHANGED <<now, ret, calls, held, generator>>

\* one callback of Array.from({ length: concurrency }, async (_, i) => ...),
\* for the values its two Math.random() calls give
ChaosCallbackCall(quantity, rnd) ==
  LET r == updateStock(products, transactions, chaos.productId, quantity, "outbound",
                       "Chaos test " \o ToString(chaos.i + 1), now, rnd)
  IN /\ chaos.pc = "mapping"
     /\ products' = r.products
     /\ transactions' = r.transactions
     /\ chaos' = [chaos EXCEPT
                    !.i = @ + 1,
                    !.successCount = IF r.result.success THEN @ + 1 ELSE @,
                    !.failureCount = IF r.result.success THEN @ ELSE @ + 1,
                    !.pc = IF chaos.i + 1 = chaos.concurrency THEN "awaiting" ELSE "mapping"]
     /\ UNCHANGED <<now, ret, calls, held, generator>>

ChaosCallback ==
  \E quantity \in ChaosQuantities, rnd \in RandomSuffixes : ChaosCallbackCall(quantity, rnd)

\* the continuation after await Promise.all(promises)
ChaosResolve ==
  /\ chaos.pc = "awaiting"
  /\ LET endTime == now
         finalStock == products[chaos.productId].stock
     IN ret' = [op |-> "chaosTest", productId |-> chaos.productId,
                concurrency |-> chaos.concurrency, threw |-> FALSE, pending |-> FALSE,
                initialStock |-> chaos.initialStock,
                result |-> [totalAttempts |-> chaos.concurrency,
                            successCount |-> chaos.successCount,
                            failureCount |-> chaos.failureCount,
                            finalStock |-> finalStock,
                            transactionLog |->
                              SelectSeq(transactions,
                                        LAMBDA t : /\ t.productId = chaos.productId
                                                   /\ t.timestamp >= chaos.startTime
                                                   /\ t.timestamp <= endTime)]]
  /\ chaos' = NoChaos
  /\ UNCHANGED <<products, transactions, now, calls, held, generator>>

Next ==
  \/ UpdateStock
  \/ ForecastDemand
  \/ GetOrderRecommendation
  \/ ValidateIntegrity
  \/ GenerateReport
  \/ Reset
  \/ ChaosTest
  \/ ChaosCallback
  \/ ChaosResolve

Spec == Init /\ [][Next]_vars


(***************************************************************************)
(* Concurrently submitted updateStock calls, one step per statement group  *)
(* of the method: calls[c] is the frame of call c.                         *)
(***************************************************************************)

Frame(productId, quantity, type, reason) ==
  [productId |-> productId, quantity |-> quantity, type |-> type, reason |-> reason,
   pc |-> "submitted", newStock |-> 0, success |-> FALSE, kind |-> "pending",
   currentStock |-> 0]

\* calls that have started and not returned
InFlight == {c \in DOMAIN calls : calls[c].pc \in {"found", "checked", "written"}}

\* variant: a call can be suspended between its statements
Preemptible(c) == TRUE

\* updateStock is a synchronous method and the chaosTest callback calls it
\* without awaiting anything first: once a call has started, no other call
\* runs until it has returned
RunsToCompletion(c) == InFlight \subseteq {c}

\* Array.from invokes the callbacks in index order: among submitted calls with
\* the same arguments the one with the lowest index starts first
EarliestSubmitted(c) ==
  \A d \in 1..(c - 1) :
    calls[d].pc = "submitted"
      => <<calls[d].productId, calls[d].quantity, calls[d].type, calls[d].reason>>
           # <<calls[c].productId, calls[c].quantity, calls[c].type, calls[c].reason>>

Returned(c, result) ==
  [calls EXCEPT ![c].pc = "returned", ![c].success = result.success,
                ![c].kind = result.kind, ![c].currentStock = result.currentStock]

\* lines 109-117: the lookup and the return for an unknown product
CallLookup(c) ==
  LET f == calls[c]
  IN /\ f.pc = "submitted"
     /\ RunsToCompletion(c)
     /\ EarliestSubmitted(c)
     /\ calls' = IF ~Has(products, f.productId)
                 THEN Returned(c, NotFoundResult(f.productId))
                 ELSE [calls EXCEPT ![c].pc = "found"]
     /\ UNCHANGED <<products, transactions, now, chaos, ret, held, generator>>

\* lines 119-128: newStock and the return for insufficient stock
CallCheck(c) ==
  LET f == calls[c]
      stock == products[f.productId].stock
      newStock == newStockOf(stock, f.quantity, f.type)
  IN /\ f.pc = "found"
     /\ RunsToCompletion(c)
     /\ calls' = IF Refused(newStock)
                 THEN Returned(c, InsufficientResult(stock, f.quantity))
                 ELSE [calls EXCEPT ![c].pc = "checked", ![c].newStock = newStock]
     /\ UNCHANGED <<products, transactions, now, chaos, ret, held, generator>>

\* line 131: product.stock = newStock
CallWrite(c) ==
  LET f == calls[c]
  IN /\ f.pc = "checked"
     /\ RunsToCompletion(c)
     /\ products' = [products EXCEPT ![f.productId].stock = f.newStock]
     /\ calls' = [calls EXCEPT ![c].pc = "written"]
     /\ UNCHANGED <<transactions, now, chaos, ret, held, generator>>

\* lines 134-152: the push and the return
CallPush(c) ==
  LET f == calls[c]
  IN /\ f.pc = "written"
     /\ RunsToCompletion(c)
     /\ \E rnd \in RandomSuffixes :
          transactions' = Push(transactions,
                               MakeTransaction(f.productId, f.quantity, f.type, f.reason,
                                               now, rnd))
     /\ calls' = Returned(c, UpdatedResult(f.newStock, products[f.productId].safetyStock))
     /\ UNCHANGED <<products, now, chaos, ret, held, generator>>

Lookup == \E c \in DOMAIN calls : CallLookup(c)
Check == \E c \in DOMAIN calls : CallCheck(c)
Write == \E c \in DOMAIN calls : CallWrite(c)
PushReturn == \E c \in DOMAIN calls : CallPush(c)

NextConc == Lookup \/ Check \/ Write \/ PushReturn

\* NumCalls calls on P003 are submitted to a freshly constructed simulator
InitConc ==
  /\ products = sampleProducts
  /\ transactions = <<>>
  /\ now = 0
  /\ chaos = NoChaos
  /\ ret = NoRet
  /\ held = NoHeld
  /\ generator = NoRequest
  /\ calls \in [1..NumCalls ->
                 {Frame("P003", q, t, "Customer order") : q \in ConcQuantities, t \in ConcTypes}]

SpecConc == InitConc /\ [][NextConc]_vars

\* P003 has been brought to stock 100 by one delivery; 50 orders of 5 are
\* submitted at once
InitOrders ==
  LET r == updateStock(sampleProducts, <<>>, "P003",
                       InitialStock - sampleProducts["P003"].stock, "inbound",
                       "Supplier delivery", 0, 0)
  IN /\ products = r.products
     /\ transactions = r.transactions
     /\ now = 0
     /\ chaos = NoChaos
     /\ ret = NoRet
     /\ held = NoHeld
     /\ generator = NoRequest
     /\ calls = [c \in 1..ConcurrentOrders |->
                   Frame("P003", OrderQuantity, "outbound", "Customer order")]

SpecOrders == InitOrders /\ [][NextConc]_vars

\* the calls order[1], ..., order[k] made one after the other on a freshly
\* constructed simulator: the catalog, the log and the results in that order
RECURSIVE SerialRun(_, _)
SerialRun(order, k) ==
  IF k = 0
  THEN [products |-> sampleProducts, transactions |-> <<>>, results |-> <<>>]
  ELSE LET before == SerialRun(order, k - 1)
           f == calls[order[k]]
           r == updateStock(before.products, before.transactions, f.productId,
                            f.quantity, f.type, f.reason, 0, 0)
       IN [products |-> r.products, transactions |-> r.transactions,
           results |-> Append(before.results, r.result)]

(***************************************************************************)
(* The ledger alone: updateStock calls with the quantities of the          *)
(* safety-stock test on an existing product, a second product and an       *)
(* unknown one.                                                            *)
(***************************************************************************)

UpdateStockLedger ==
  \E productId \in LedgerIds, quantity \in LedgerQuantities, type \in LedgerTypes,
     reason \in Reasons, rnd \in RandomSuffixes :
       /\ Fits(MaxLog, productId, quantity, type)
       /\ UpdateStockCall(productId, quantity, type, reason, rnd)

NextLedger == UpdateStockLedger

SpecLedger == Init /\ [][NextLedger]_vars

(***************************************************************************)
(* Customer orders on P001 followed by forecasts over the lead time of     *)
(* P001 (7 days) and over 30 days.                                         *)
(***************************************************************************)

UpdateStockForecast ==
  \E quantity \in ForecastQuantities, reason \in Reasons, rnd \in RandomSuffixes :
    /\ Fits(MaxOutbound, "P001", quantity, "outbound")
    /\ UpdateStockCall("P001", quantity, "outbound", reason, rnd)

ForecastDemandHorizon ==
  \E days \in ForecastHorizons : ForecastDemandCall("P001", days)

NextForecast == UpdateStockForecast \/ ForecastDemandHorizon

SpecForecast == Init /\ [][NextForecast]_vars

(***************************************************************************)
(* A caller that updates stock, resets, and reads through the getters,     *)
(* keeping the result of its last getter call.                             *)
(***************************************************************************)

GetProduct ==
  \E productId \in GetterIds :
    LET r == getProduct(products, productId)
    IN /\ Schedulable
       /\ held' = IF r = Undefined THEN Undefined
                  ELSE [kind |-> "product", object |-> r,
                        stock |-> Deref(products, r).stock]
       /\ ret' = [op |-> "getProduct", productId |-> productId]
       /\ UNCHANGED <<products, transactions, now, chaos, calls, generator>>

GetAllProducts ==
  LET r == getAllProducts(products)
  IN /\ Schedulable
     /\ held' = [kind |-> "products", objects |-> r,
                 stocks |-> [k \in DOMAIN r |-> Deref(products, r[k]).stock]]
     /\ ret' = [op |-> "getAllProducts"]
     /\ UNCHANGED <<products, transactions, now, chaos, calls, generator>>

GetTransactionHistory ==
  \E arg \in HistoryArgs :
    LET r == getTransactionHistory(transactions, arg)
    IN /\ Schedulable
       /\ held' = [kind |-> "history", array |-> r,
                   returned |-> DerefHistory(transactions, r)]
       /\ ret' = [op |-> "getTransactionHistory", arg |-> arg,
                  result |-> DerefHistory(transactions, r)]
       /\ UNCHANGED <<products, transactions, now, chaos, calls, generator>>

UpdateStockGetters ==
  \E productId \in GetterUpdateIds, quantity \in GetterQuantities, type \in GetterTypes,
     reason \in Reasons, rnd \in RandomSuffixes :
       /\ Fits(MaxLog, productId, quantity, type)
       /\ UpdateStockCall(productId, quantity, type, reason, rnd)

NextGetters ==
  \/ UpdateStockGetters
  \/ GetProduct
  \/ GetAllProducts
  \/ GetTransactionHistory
  \/ Reset

SpecGetters == Init /\ [][NextGetters]_vars


(***************************************************************************)
(* The advisor: movements on P003 (negative magnitudes included, which     *)
(* updateStock does not refuse), followed by forecasts, recommendations,   *)
(* integrity checks, reports and resets.                                   *)
(***************************************************************************)

UpdateStockAdvisor ==
  \E quantity \in AdvisorQuantities, type \in Types, reason \in Reasons,
     rnd \in RandomSuffixes :
       /\ Fits(MaxLog, "P003", quantity, type)
       /\ UpdateStockCall("P003", quantity, type, reason, rnd)

ForecastDemandAdvisor ==
  \E productId \in AdvisorIds, days \in ForecastDays : ForecastDemandCall(productId, days)

NextAdvisor ==
  \/ UpdateStockAdvisor
  \/ ForecastDemandAdvisor
  \/ GetOrderRecommendation
  \/ ValidateIntegrity
  \/ GenerateReport
  \/ Reset

SpecAdvisor == Init /\ [][NextAdvisor]_vars

(***************************************************************************)
(* lib/ai-test-generator.ts (class AITestGenerator).  A response of the    *)
(* text-generation service is a sequence of lines; a line is described by  *)
(* what the regular expressions of parseResponse can tell about it.        *)
(***************************************************************************)

\* a line of plain text
TextLine == [kind |-> "text", text |-> "Inventory update test"]
\* ```typescript
FenceTypescript == [kind |-> "fence", language |-> "typescript"]
\* ```
Fence == [kind |-> "fence", language |-> ""]
\* the headings of the edge-case section and of the coverage section
HeadingEdgeCases == [kind |-> "heading", title |-> "edge cases"]
HeadingCoverage == [kind |-> "heading", title |-> "coverage"]
\* - case
DashLine == [kind |-> "dash", text |-> "zero stock"]
\* NN%
PercentLine(n) == [kind |-> "percent", value |-> n]

ResponseLines ==
  {TextLine, FenceTypescript, Fence, HeadingEdgeCases, HeadingCoverage, DashLine,
   PercentLine(90), PercentLine(150)}

RECURSIVE SeqsUpTo(_, _)
SeqsUpTo(S, n) ==
  IF n = 0 THEN {<<>>}
  ELSE LET shorter == SeqsUpTo(S, n - 1)
       IN shorter \cup {Append(s, x) : s \in {t \in shorter : Len(t) = n - 1}, x \in S}

Responses == SeqsUpTo(ResponseLines, MaxLines)

MinOf(S) == CHOOSE x \in S : \A y \in S : x <= y

\* the line begins with ## / with ```, which is what the lookaheads
\* (?=\n##|\n```) look for after a line break
BeginsHeading(l) == l.kind = "heading"
BeginsFence(l) == l.kind = "fence"
EndsCapture(l) == BeginsHeading(l) \/ BeginsFence(l)

DefaultCoverage == 80
DefaultDescription == <<[kind |-> "text", text |-> "Generated test"]>>

\* response.match(/```typescript([\s\S]*?)```/): the lines between the first
\* ```typescript and the next ```; '' (no lines) without a match
ParsedCode(response) ==
  LET opens == {i \in 1..Len(response) : response[i] = FenceTypescript}
      closes == {j \in 1..Len(response) : j > MinOf(opens) /\ BeginsFence(response[j])}
  IN IF opens = {} THEN <<>>
     ELSE IF closes = {} THEN <<>>
     ELSE SubSeq(response, MinOf(opens) + 1, MinOf(closes) - 1)

\* the edge-case heading followed by a line break, then everything up to the
\* next line break that is followed by ## or ```, or up to the end; of these
\* lines the ones beginning with - are kept, without the dash
ParsedEdgeCases(response) ==
  LET heads == {i \in 1..(Len(response) - 1) : response[i] = HeadingEdgeCases}
      first == MinOf(heads) + 1
      stops == {k \in (first + 1)..Len(response) : EndsCapture(response[k])}
      last == IF stops = {} THEN Len(response) ELSE MinOf(stops) - 1
      kept == SelectSeq(SubSeq(response, first, last), LAMBDA l : l.kind = "dash")
  IN IF heads = {} THEN <<>>
     ELSE [k \in 1..Len(kept) |-> kept[k].text]

\* response.match(/## coverage heading\n(\d+)%/) and parseInt, 80 without a match
ParsedCoverage(response) ==
  LET heads == {i \in 1..(Len(response) - 1) :
                  response[i] = HeadingCoverage /\ response[i + 1].kind = "percent"}
  IN IF heads = {} THEN DefaultCoverage
     ELSE response[MinOf(heads) + 1].value

\* response.match(/^(.*?)(?=\n##|\n```)/s): from the start of the response up
\* to the first line break that is followed by ## or ```
ParsedDescription(response) ==
  LET ends == {k \in 1..(Len(response) - 1) : EndsCapture(response[k + 1])}
  IN IF ends = {} THEN DefaultDescription
     ELSE SubSeq(response, 1, MinOf(ends))

parseResponse(response) ==
  [code |-> ParsedCode(response),
   description |-> ParsedDescription(response),
   edgeCases |-> ParsedEdgeCases(response),
   estimatedCoverage |-> ParsedCoverage(response)]

\* contexts[domain] || contexts.scm
getDomainContext(domain) ==
  IF domain \in {"scm", "inventory", "purchase"} THEN domain ELSE "scm"

\* what awaiting this.client.messages.create(...) can give: a rejection, or a
\* message whose content is a list of blocks
Rejection(error) == [settled |-> "rejected", error |-> error]
Message(content) == [settled |-> "resolved", content |-> content]
TextBlock(response) == [type |-> "text", text |-> response]

Outcomes ==
  {Rejection(e) : e \in CollaboratorErrors}
    \cup {Message(<<>>)}
    \cup {Message(<<TextBlock(r)>>) : r \in Responses}

\* generateTestFromSpec from the await on: a rejection is rethrown to the
\* caller, message.content[0].text throws on an empty content, and a text is
\* parsed
Resumed(outcome) ==
  IF outcome.settled = "rejected"
  THEN [threw |-> TRUE, error |-> outcome.error]
  ELSE IF outcome.content = <<>>
  THEN [threw |-> TRUE, error |-> "TypeError"]
  ELSE [threw |-> FALSE, result |-> parseResponse(outcome.content[1].text)]

\* generateTestFromSpec up to the await: the request is sent
GenerateTestFromSpec ==
  \E spec \in GeneratorSpecs, testType \in GeneratorTestTypes, domain \in GeneratorDomains :
    /\ generator.pc = "idle"
    /\ generator' = [pc |-> "awaiting",
                     request |-> [domainContext |-> getDomainContext(domain),
                                  spec |-> spec, testType |-> testType]]
    /\ ret' = [op |-> "generateTestFromSpec", pending |-> TRUE]
    /\ UNCHANGED <<products, transactions, now, chaos, calls, held>>

\* the request settles and generateTestFromSpec runs to its end
GenerateTestResumes ==
  \E outcome \in Outcomes :
    /\ generator.pc = "awaiting"
    /\ generator' = NoRequest
    /\ ret' = [op |-> "generateTestFromSpec", pending |-> FALSE, outcome |-> outcome,
               returned |-> Resumed(outcome)]
    /\ UNCHANGED <<products, transactions, now, chaos, calls, held>>

NextGenerator == GenerateTestFromSpec \/ GenerateTestResumes

SpecGenerator == Init /\ [][NextGenerator]_vars

(***************************************************************************)
(* The simulator under a clock that may or may not advance between two     *)
(* operations: Date.now() and new Date() have millisecond resolution, and  *)
(* the synchronous operations of the simulator take less than that.        *)
(***************************************************************************)

\* the clock advances by a millisecond
Tick ==
  /\ now < MaxTime
  /\ now' = now + 1
  /\ UNCHANGED <<products, transactions, chaos, ret, calls, held, generator>>

UpdateStockClock ==
  \E quantity \in ClockQuantities, reason \in Reasons, rnd \in ClockSuffixes :
       /\ Fits(MaxLog, "P003", quantity, "outbound")
       /\ UpdateStockCall("P003", quantity, "outbound", reason, rnd)

ChaosCallbackClock ==
  \E quantity \in ChaosQuantities, rnd \in ClockSuffixes : ChaosCallbackCall(quantity, rnd)

NextClock ==
  \/ Tick
  \/ UpdateStockClock
  \/ ChaosTest
  \/ ChaosCallbackClock
  \/ ChaosResolve

SpecClock == Init /\ [][NextClock]_vars

(***************************************************************************)
(* Progress of chaosTest.  The callbacks are run by Array.from inside the  *)
(* chaosTest call itself, and the continuation after Promise.all is a      *)
(* microtask of promises that are already settled: the JavaScript job      *)
(* queue runs each of them once it is ready, which is weak fairness of the *)
(* two actions.  Nothing is assumed about the callers (UpdateStockAdvisor, *)
(* ChaosTest).                                                             *)
(***************************************************************************)

NextProgress == UpdateStockAdvisor \/ ChaosTest \/ ChaosCallback \/ ChaosResolve

SpecProgress ==
  /\ Init
  /\ [][NextProgress]_vars
  /\ WF_vars(ChaosCallback)
  /\ WF_vars(ChaosResolve)

(***************************************************************************)
(* The movements alone: the updateStock calls of Spec and the chaosTest    *)
(* runs, without the queries and without reset.                            *)
(***************************************************************************)

NextMovements == UpdateStock \/ ChaosTest \/ ChaosCallback \/ ChaosResolve

SpecMovements == Init /\ [][NextMovements]_vars

(***************************************************************************)
(* generateBatch: Promise.all over one generateTestFromSpec call per       *)
(* element of specs.  All requests are sent before the first await         *)
(* suspends generateBatch; they settle in any order.  Promise.all is       *)
(* fulfilled with the results in index order once every call is fulfilled, *)
(* and is rejected with the error of the call that is rejected first.      *)
(***************************************************************************)

\* the responses of the requests of a batch: two texts that parse differently
BatchResponses == {<<TextLine>>, <<HeadingCoverage, PercentLine(90)>>}

BatchOptions ==
  [spec : GeneratorSpecs, testType : GeneratorTestTypes, domain : GeneratorDomains]

BatchOutcomes ==
  {Rejection("timeout"), Message(<<>>)} \cup {Message(<<TextBlock(r)>>) : r \in BatchResponses}

\* a generateTestFromSpec call of the batch that is still waiting
Unsettled == [settled |-> "no"]

\* variant: the results are collected in the order in which the calls finish
PromiseAllCompletionOrder(calls_, order, first) ==
  IF first # 0
  THEN [threw |-> TRUE, error |-> Resumed(calls_[first]).error]
  ELSE [threw |-> FALSE,
        result |-> [k \in 1..Len(order) |-> Resumed(calls_[order[k]]).result]]

\* the settlement of Promise.all(calls): calls_ holds the outcome of each
\* request, order the indices in the order of completion, first the index of
\* the call rejected first (0 when none)
PromiseAll(calls_, order, first) ==
  IF first # 0
  THEN [threw |-> TRUE, error |-> Resumed(calls_[first]).error]
  ELSE [threw |-> FALSE,
        result |-> [k \in 1..Len(calls_) |-> Resumed(calls_[k]).result]]

\* generateBatch up to the await: one request per element of specs
GenerateBatch ==
  \E specs \in SeqsUpTo(BatchOptions, MaxBatch) :
    /\ generator.pc = "idle"
    /\ generator' = [pc |-> "batch",
                     requests |-> [k \in 1..Len(specs) |->
                                     [domainContext |-> getDomainContext(specs[k].domain),
                                      spec |-> specs[k].spec,
                                      testType |-> specs[k].testType]],
                     outcomes |-> [k \in 1..Len(specs) |-> Unsettled],
                     order |-> <<>>,
                     first |-> 0]
    /\ ret' = [op |-> "generateBatch", pending |-> TRUE]
    /\ UNCHANGED <<products, transactions, now, chaos, calls, held>>

\* the request of one call of the batch settles and that call runs to its end
BatchRequestSettles ==
  \E k \in 1..MaxBatch, outcome \in BatchOutcomes :
    /\ generator.pc = "batch"
    /\ k \in DOMAIN generator.outcomes
    /\ generator.outcomes[k] = Unsettled
    /\ generator' = [generator EXCEPT
                       !.outcomes[k] = outcome,
                       !.order = Append(@, k),
                       !.first = IF @ = 0 /\ Resumed(outcome).threw THEN k ELSE @]
    /\ UNCHANGED <<products, transactions, now, chaos, ret, calls, held>>

\* the continuation of generateBatch once Promise.all has settled: every call
\* fulfilled, or one call rejected (the other requests may still be in flight)
GenerateBatchResumes ==
  /\ generator.pc = "batch"
  /\ \/ generator.first # 0
     \/ \A k \in DOMAIN generator.outcomes : generator.outcomes[k] # Unsettled
  /\ ret' = [op |-> "generateBatch", pending |-> FALSE,
             size |-> Len(generator.requests),
             outcomes |-> generator.outcomes,
             order |-> generator.order,
             returned |-> PromiseAll(generator.outcomes, generator.order, generator.first)]
  /\ generator' = NoRequest
  /\ UNCHANGED <<products, transactions, now, chaos, calls, held>>

NextBatch == GenerateBatch \/ BatchRequestSettles \/ GenerateBatchResumes

SpecBatch == Init /\ [][NextBatch]_vars

(***************************************************************************)
(* Properties of the ledger.                                               *)
(***************************************************************************)

\* C1: in every reachable state every product's stock is >= 0, whatever
\* updateStock calls (direct or as chaosTest callbacks) have been made.
C1_StockNeverNegative ==
  \A p \in DOMAIN products : products[p].stock >= 0

\* a refused call has just returned and a product sits exactly at stock 0
C1_Witness ==
  /\ ret.op = "updateStock"
  /\ ret.result.kind = "InsufficientStock"
  /\ \E p \in DOMAIN products : products[p].stock = 0

\* C2: a call on an existing product with stock + delta < 0 returns
\* success = false with currentStock = the stock before the call and changes
\* neither the catalog nor the log.
C2_RejectionHasNoEffect ==
  [][(/\ ret'.op = "updateStock"
      /\ ret'.productId \in DOMAIN products
      /\ products[ret'.productId].stock
           + (IF ret'.type = "outbound" THEN 0 - ret'.quantity ELSE ret'.quantity) < 0)
     => /\ ret'.result.success = FALSE
        /\ ret'.result.currentStock = products[ret'.productId].stock
        /\ products' = products
        /\ transactions' = transactions]_vars

\* a call was refused for insufficient stock after a movement had been accepted
C2_Witness ==
  /\ ret.op = "updateStock"
  /\ ret.result.kind = "InsufficientStock"
  /\ ret.type = "outbound"
  /\ Len(transactions) > 0

\* C3: once a product has accepted movements, validateIntegrity reports
\* isValid = true and difference = 0 for it.
C3_IntegrityReplayValid ==
  (/\ ret.op = "validateIntegrity"
   /\ ret.result.found
   /\ \E i \in 1..Len(transactions) : transactions[i].productId = ret.productId)
  => (ret.result.isValid /\ ret.result.difference = 0)

\* C4: calls submitted concurrently on one product do not interleave: at most
\* one call is between its start and its return, and once all have returned the
\* results, the catalog and the log are those of the calls made one after the
\* other in some order.
C4_Linearizable ==
  /\ Cardinality(InFlight) <= 1
  /\ (\A c \in DOMAIN calls : calls[c].pc = "returned")
     => \E order \in Permutations(DOMAIN calls) :
          LET serial == SerialRun(order, Len(calls))
              Shown(t) == <<t.productId, t.type, t.quantity, t.reason>>
          IN /\ serial.products = products
             /\ Len(serial.transactions) = Len(transactions)
             /\ \A i \in 1..Len(transactions) :
                  Shown(serial.transactions[i]) = Shown(transactions[i])
             /\ \A k \in 1..Len(calls) :
                  /\ serial.results[k].success = calls[order[k]].success
                  /\ serial.results[k].kind = calls[order[k]].kind
                  /\ serial.results[k].currentStock = calls[order[k]].currentStock

\* all calls have returned, two were accepted and one was refused
C4_Witness ==
  /\ calls # <<>>
  /\ \A c \in DOMAIN calls : calls[c].pc = "returned"
  /\ \E c \in DOMAIN calls : calls[c].kind = "InsufficientStock"
  /\ \E c, d \in DOMAIN calls : c # d /\ calls[c].success /\ calls[d].success

\* C5: with stock 100 and 50 concurrent outbound orders of 5, successes * 5
\* <= 100 at every point, the stock is 100 - successes * 5 whenever no order
\* is in flight (in particular when all have returned), and once all orders
\* have returned successes + failures = 50.
C5_AtomicOrders ==
  LET successes == Cardinality({c \in DOMAIN calls : calls[c].pc = "returned" /\ calls[c].success})
      failures == Cardinality({c \in DOMAIN calls : calls[c].pc = "returned" /\ ~calls[c].success})
  IN /\ successes * OrderQuantity <= InitialStock
     /\ InFlight = {}
        => products["P003"].stock = InitialStock - successes * OrderQuantity
     /\ (\A c \in DOMAIN calls : calls[c].pc = "returned")
        => successes + failures = ConcurrentOrders

\* all 50 orders have returned: 20 accepted, 30 refused, stock 0
C5_Witness ==
  /\ Len(calls) = ConcurrentOrders
  /\ \A c \in DOMAIN calls : calls[c].pc = "returned"
  /\ Cardinality({c \in DOMAIN calls : calls[c].success}) = 20
  /\ products["P003"].stock = 0

\* C6: for a product without adjustment movements, stock = initial stock
\* + sum of its inbound quantities - sum of its outbound quantities.
C6_Conservation ==
  \A p \in DOMAIN products :
    LET OfKind(k) == SelectSeq(transactions, LAMBDA t : t.productId = p /\ t.type = k)
    IN OfKind("adjustment") = <<>>
       => products[p].stock = sampleProducts[p].stock
                                + SumQuantity(OfKind("inbound"))
                                - SumQuantity(OfKind("outbound"))

\* a product has an inbound and an outbound movement and the last call was refused
C6_Witness ==
  /\ ret.op = "updateStock"
  /\ ~ret.result.success
  /\ \E i, j \in 1..Len(transactions) :
       /\ transactions[i].productId = transactions[j].productId
       /\ transactions[i].type = "inbound"
       /\ transactions[j].type = "outbound"
       /\ transactions[j].quantity > 0

\* C7: an accepted call sets the stock to old stock + delta, appends exactly
\* one transaction with the call's productId, type, quantity and reason at the
\* end of the log and returns success = true with the new stock.
C7_AcceptedUpdate ==
  [][(/\ ret'.op = "updateStock"
      /\ ret'.productId \in DOMAIN products
      /\ products[ret'.productId].stock
           + (IF ret'.type = "outbound" THEN 0 - ret'.quantity ELSE ret'.quantity) >= 0)
     => LET n == Len(transactions)
            p == ret'.productId
        IN /\ products' = [products EXCEPT ![p].stock =
                             @ + (IF ret'.type = "outbound" THEN 0 - ret'.quantity
                                  ELSE ret'.quantity)]
           /\ Len(transactions') = n + 1
           /\ SubSeq(transactions', 1, n) = transactions
           /\ transactions'[n + 1].productId = p
           /\ transactions'[n + 1].type = ret'.type
           /\ transactions'[n + 1].quantity = ret'.quantity
           /\ transactions'[n + 1].reason = ret'.reason
           /\ ret'.result.success = TRUE
           /\ ret'.result.currentStock = products'[p].stock]_vars

\* an outbound movement has just been accepted on top of an earlier one
C7_Witness ==
  /\ ret.op = "updateStock"
  /\ ret.result.success
  /\ Len(transactions) >= 2
  /\ transactions[Len(transactions)].type = "outbound"
  /\ transactions[Len(transactions)].quantity > 0

\* C8: a call on a productId that is not in the catalog returns
\* success = false (not found) and changes neither the catalog nor the log.
C8_UnknownProduct ==
  [][(ret'.op = "updateStock" /\ ret'.productId \notin DOMAIN products)
     => /\ ret'.result.success = FALSE
        /\ ret'.result.kind = "NotFound"
        /\ products' = products
        /\ transactions' = transactions]_vars

\* a call on an unknown product has returned in a state with movements
C8_Witness ==
  /\ ret.op = "updateStock"
  /\ ret.result.kind = "NotFound"
  /\ Len(transactions) > 0

\* C9: except for reset(), every step leaves the earlier log a prefix of the
\* later one.
C9_AppendOnly ==
  [][Reset \/ (/\ Len(transactions) <= Len(transactions')
               /\ SubSeq(transactions', 1, Len(transactions)) = transactions)]_vars

\* a chaosTest has resolved with an accepted movement on top of an earlier one
C9_Witness ==
  /\ ret.op = "chaosTest"
  /\ ~ret.pending /\ ~ret.threw
  /\ ret.result.successCount > 0
  /\ Len(transactions) >= 2

\* C10: updateStock accepts only non-negative magnitudes, so no transaction
\* with a negative quantity is ever recorded in the log.
C10_NoNegativeQuantity ==
  \A i \in 1..Len(transactions) : transactions[i].quantity >= 0

\* C11: an accepted updateStock carries the below-safety-stock alert exactly
\* when the new stock is below the product's safetyStock, and with or without
\* the alert it returns success = true, writes the stock and logs the
\* movement; on P001 (safety stock 200) at stock 1000 an outbound of 850 is
\* accepted with the alert, and at stock 150 an outbound of 151 is refused and
\* the stock stays 150.
C11_SafetyAlert ==
  [][ret'.op = "updateStock"
     => LET p == ret'.productId
            outbound(q) == ret'.productId = "P001" /\ ret'.type = "outbound"
                           /\ ret'.quantity = q
        IN /\ ret'.result.success
              => /\ ret'.result.message.alert
                      <=> (ret'.result.currentStock < products[p].safetyStock)
                 /\ products'[p].stock = ret'.result.currentStock
                 /\ Len(transactions') = Len(transactions) + 1
           /\ ret'.result.kind = "Updated" => ret'.result.success
           /\ (outbound(850) /\ products["P001"].stock = 1000)
              => /\ ret'.result.success
                 /\ ret'.result.message.alert
                 /\ products'["P001"].stock = 150
           /\ (outbound(151) /\ products["P001"].stock = 150)
              => /\ ~ret'.result.success
                 /\ ret'.result.kind = "InsufficientStock"
                 /\ products'["P001"].stock = 150
                 /\ transactions' = transactions]_vars

\* outbound 850 was accepted from stock 1000 and outbound 151 has just been
\* refused at stock 150
C11_Witness ==
  /\ ret.op = "updateStock"
  /\ ret.productId = "P001" /\ ret.type = "outbound" /\ ret.quantity = 151
  /\ ret.result.kind = "InsufficientStock"
  /\ products["P001"].stock = 150
  /\ Len(transactions) = 1
  /\ transactions[1].quantity = 850

\* C12: an updateStock call on product A leaves every other product's fields
\* and movement history unchanged, and for a call on A and a call on a
\* different product B the two results, the final catalog and every product's
\* history (productId, type, quantity, reason of each movement) are the same
\* whether A's call or B's call is made first.
C12_IndependentProducts ==
  [][ret'.op = "updateStock"
     => LET A == ret'.productId
            History(T, p) == SelectSeq(T, LAMBDA t : t.productId = p)
            Shown(T, p) == [i \in 1..Len(History(T, p)) |->
                              LET t == History(T, p)[i]
                              IN <<t.productId, t.type, t.quantity, t.reason>>]
        IN /\ \A B \in DOMAIN products \ {A} :
                /\ products'[B] = products[B]
                /\ History(transactions', B) = History(transactions, B)
           /\ \A B \in LedgerIds \ {A}, quantity \in LedgerQuantities, type \in LedgerTypes,
                 reason \in Reasons :
                LET AthenB == updateStock(products', transactions', B, quantity, type,
                                          reason, now, 0)
                    Bfirst == updateStock(products, transactions, B, quantity, type,
                                          reason, now, 0)
                    BthenA == updateStock(Bfirst.products, Bfirst.transactions, A,
                                          ret'.quantity, ret'.type, ret'.reason, now, 0)
                IN /\ AthenB.result = Bfirst.result
                   /\ ret'.result = BthenA.result
                   /\ AthenB.products = BthenA.products
                   /\ \A p \in LedgerIds :
                        Shown(AthenB.transactions, p) = Shown(BthenA.transactions, p)]_vars

\* a movement on P003 has just been accepted after one on P001
C12_Witness ==
  /\ ret.op = "updateStock"
  /\ ret.productId = "P003"
  /\ ret.result.success
  /\ Len(transactions) = 2
  /\ transactions[1].productId = "P001"
  /\ transactions[2].productId = "P003"

\* C13: a forecastDemand, getOrderRecommendation, validateIntegrity or
\* generateReport call leaves every product's fields and the transaction log
\* as they were; validateIntegrity reports a difference without correcting it.
C13_ReadOnly ==
  [][ret'.op \in {"forecastDemand", "getOrderRecommendation", "validateIntegrity",
                  "generateReport"}
     => /\ products' = products
        /\ transactions' = transactions]_vars

\* validateIntegrity has just reported a difference and the stock still
\* differs from the replayed value
C13_Witness ==
  /\ ret.op = "validateIntegrity"
  /\ ret.result.found
  /\ ~ret.result.isValid
  /\ Len(transactions) > 0
  /\ products[ret.productId].stock # ret.result.calculatedStock

\* C14: validateIntegrity on an existing product reports calculatedStock =
\* (sum of the product's logged inbound and adjustment quantities) - (sum of
\* its logged outbound quantities), counted from 0, difference = stock -
\* calculatedStock, and isValid exactly when |difference| < 0.01, which for
\* these integer quantities is exactly when difference = 0.
C14_IntegrityReplay ==
  (ret.op = "validateIntegrity" /\ ret.productId \in DOMAIN products)
  => LET p == ret.productId
         OfKind(k) == SelectSeq(transactions, LAMBDA t : t.productId = p /\ t.type = k)
         replayed == SumQuantity(OfKind("inbound")) + SumQuantity(OfKind("adjustment"))
                       - SumQuantity(OfKind("outbound"))
         difference == ret.result.difference
     IN /\ ret.result.calculatedStock = replayed
        /\ ret.result.currentStock = products[p].stock
        /\ difference = products[p].stock - replayed
        /\ ret.result.isValid <=> (-1 < 100 * difference /\ 100 * difference < 1)
        /\ ret.result.isValid <=> difference = 0

\* validateIntegrity has returned for a product with an adjustment and an
\* outbound movement in the log
C14_Witness ==
  /\ ret.op = "validateIntegrity"
  /\ ret.result.found
  /\ \E i, j \in 1..Len(transactions) :
       /\ transactions[i].productId = ret.productId
       /\ transactions[j].productId = ret.productId
       /\ transactions[i].type = "adjustment" /\ transactions[i].quantity > 0
       /\ transactions[j].type = "outbound" /\ transactions[j].quantity > 0

\* C15: forecastDemand on an existing product returns 0 without outbound
\* movements and otherwise the exact ceiling of average * days * 1.2, the
\* average being taken over the product's last min(10, n) outbound movements
\* in log order.
C15_ForecastCeil ==
  (ret.op = "forecastDemand" /\ ret.productId \in DOMAIN products)
  => LET outbound == SelectSeq(transactions,
                               LAMBDA t : t.productId = ret.productId /\ t.type = "outbound")
         n == Len(outbound)
         recent == IF n <= 10 THEN outbound ELSE SubSeq(outbound, n - 9, n)
     IN ret.result = IF n = 0 THEN 0
                     ELSE Ceil(SumQuantity(recent) * ret.days * 12, Len(recent) * 10)

\* C16: getOrderRecommendation on an existing product takes required =
\* forecastDemand(productId, leadTimeDays) + safetyStock; when stock < required
\* it returns shouldOrder = true with recommendedQuantity = required - stock,
\* which is > 0, and otherwise shouldOrder = false with recommendedQuantity = 0.
C16_OrderRecommendation ==
  (ret.op = "getOrderRecommendation" /\ ret.productId \in DOMAIN products)
  => LET product == products[ret.productId]
         required == forecastDemand(products, transactions, ret.productId,
                                    product.leadTimeDays) + product.safetyStock
     IN IF product.stock < required
        THEN /\ ret.result.shouldOrder
             /\ ret.result.recommendedQuantity = required - product.stock
             /\ ret.result.recommendedQuantity > 0
        ELSE /\ ~ret.result.shouldOrder
             /\ ret.result.recommendedQuantity = 0

\* an order is recommended for a product whose forecast is positive and whose
\* stock is positive
C16_Witness ==
  /\ ret.op = "getOrderRecommendation"
  /\ ret.productId \in DOMAIN products
  /\ ret.result.shouldOrder
  /\ ret.result.forecast > 0
  /\ products[ret.productId].stock > 0
  /\ ret.result.recommendedQuantity
       = ret.result.forecast + products[ret.productId].safetyStock
           - products[ret.productId].stock

\* C17: getTransactionHistory(productId) returns exactly the logged
\* transactions with that productId, in log order, getTransactionHistory()
\* returns the whole log in order, and after an accepted updateStock the last
\* element of both is the movement just accepted.
C17_TransactionHistory ==
  /\ ret.op = "getTransactionHistory"
     => ret.result = IF ret.arg = Omitted THEN transactions
                     ELSE SelectSeq(transactions, LAMBDA t : t.productId = ret.arg[1])
  /\ (ret.op = "updateStock" /\ ret.result.success)
     => LET all == DerefHistory(transactions, getTransactionHistory(transactions, Omitted))
            own == DerefHistory(transactions,
                                getTransactionHistory(transactions, <<ret.productId>>))
            Accepted(t) == /\ t.productId = ret.productId
                           /\ t.type = ret.type
                           /\ t.quantity = ret.quantity
                           /\ t.reason = ret.reason
        IN /\ all # <<>> /\ Accepted(all[Len(all)])
           /\ own # <<>> /\ Accepted(own[Len(own)])

\* C18: reset() leaves the simulator as the constructor does: the catalog is
\* P001 (stock 1000, safety stock 200, lead time 7), P002 (500, 100, 14) and
\* P003 (50, 20, 30), equal to the catalog of the initial state, and the log is
\* empty; a reset() made right after a reset() changes nothing.
C18_ResetIsFresh ==
  [][Reset
     => LET Is(p, stock, safetyStock, leadTimeDays) ==
              /\ products'[p].id = p
              /\ products'[p].stock = stock
              /\ products'[p].safetyStock = safetyStock
              /\ products'[p].leadTimeDays = leadTimeDays
        IN /\ DOMAIN products' = {"P001", "P002", "P003"}
           /\ Is("P001", 1000, 200, 7)
           /\ Is("P002", 500, 100, 14)
           /\ Is("P003", 50, 20, 30)
           /\ products' = sampleProducts
           /\ transactions' = <<>>
           /\ ret.op = "reset" => (products' = products /\ transactions' = transactions)]_vars

\* reset() has returned after the caller had seen a non-empty log
C18_Witness ==
  /\ ret.op = "reset"
  /\ held.kind = "history"
  /\ held.returned # <<>>
  /\ transactions = <<>>
  /\ products = sampleProducts

\* C19: an updateStock call returns success = false exactly when it is
\* rejected (unknown product, or stock + delta < 0) and success = true when it
\* is accepted; the rejection for an unknown product and the rejection for
\* insufficient stock carry different messages, and the latter carries the
\* stock before the call (in the message and in currentStock) and the
\* requested quantity.
C19_RejectionsDistinguishable ==
  [][ret'.op = "updateStock"
     => LET p == ret'.productId
            r == ret'.result
            unknown == p \notin DOMAIN products
            short == /\ ~unknown
                     /\ products[p].stock + (IF ret'.type = "outbound" THEN 0 - ret'.quantity
                                             ELSE ret'.quantity) < 0
        IN /\ r.success <=> ~(unknown \/ short)
           /\ r.success <=> (transactions' # transactions)
           /\ unknown => (r.kind = "NotFound" /\ r.message.productId = p)
           /\ short => /\ r.kind = "InsufficientStock"
                       /\ r.message.current = products[p].stock
                       /\ r.message.requested = ret'.quantity
                       /\ r.currentStock = products[p].stock
           /\ r.kind \in {"NotFound", "InsufficientStock"} => ~r.success]_vars

\* outbound 151 has just been refused on P001 at stock 150 and the result
\* names both numbers
C19_Witness ==
  /\ ret.op = "updateStock"
  /\ ret.productId = "P001"
  /\ ret.result.kind = "InsufficientStock"
  /\ ~ret.result.success
  /\ ret.result.message.current = 150
  /\ ret.result.message.requested = 151
  /\ ret.result.currentStock = 150

\* C20: what getProduct and getAllProducts returned is a snapshot: after an
\* updateStock accepted later, the stock seen through the returned object (or
\* through each object of the returned array) is still the stock it showed
\* when the getter returned; and a product's stock in the catalog changes only
\* in an updateStock or a reset step.
C20_ProductsAreSnapshots ==
  [][/\ (ret'.op = "updateStock" /\ ret'.result.success /\ held.kind = "product")
        => Deref(products', held'.object).stock = held.stock
     /\ (ret'.op = "updateStock" /\ ret'.result.success /\ held.kind = "products")
        => \A k \in DOMAIN held.objects :
             Deref(products', held'.objects[k]).stock = held.stocks[k]
     /\ (\E p \in DOMAIN products : products'[p].stock # products[p].stock)
        => (UpdateStockGetters \/ Reset)]_vars

C22_NoOutboundNoForecast ==
  (/\ ret.op = "forecastDemand"
   /\ \/ ret.productId \notin DOMAIN products
      \/ \A i \in 1..Len(transactions) :
           ~(transactions[i].productId = ret.productId /\ transactions[i].type = "outbound"))
  => ret.result = 0

\* the forecast for P001 is 0 while P001 has an inbound movement and P003 an
\* outbound one
C22_Witness ==
  /\ ret.op = "forecastDemand"
  /\ ret.productId = "P001"
  /\ ret.result = 0
  /\ \E i, j \in 1..Len(transactions) :
       /\ transactions[i].productId = "P001" /\ transactions[i].type = "inbound"
       /\ transactions[j].productId = "P003" /\ transactions[j].type = "outbound"
       /\ transactions[j].quantity > 0

\* C23: when the request to the text-generation service fails (rejected,
\* unreachable, timed out), generateTestFromSpec does not throw: it returns a
\* GeneratedTest with the empty / default values.
C23_CollaboratorFailureDegraded ==
  (/\ ret.op = "generateTestFromSpec"
   /\ ~ret.pending
   /\ ret.outcome.settled = "rejected")
  => /\ ~ret.returned.threw
     /\ ret.returned.result = parseResponse(<<>>)

\* C24: parseResponse returns a result for every response text, with code ''
\* when there is no typescript code block, no edge cases when there is no
\* edge-case section, coverage 80 when there is no coverage section, and the
\* default description when the response does not begin with a paragraph of
\* text.
C24_MissingSectionsDefault ==
  (/\ ret.op = "generateTestFromSpec"
   /\ ~ret.pending
   /\ ret.outcome.settled = "resolved"
   /\ ret.outcome.content # <<>>)
  => LET response == ret.outcome.content[1].text
         Lacks(line) == \A i \in 1..Len(response) : response[i] # line
     IN /\ ~ret.returned.threw
        /\ Lacks(FenceTypescript) => ret.returned.result.code = <<>>
        /\ Lacks(HeadingEdgeCases) => ret.returned.result.edgeCases = <<>>
        /\ Lacks(HeadingCoverage) => ret.returned.result.estimatedCoverage = DefaultCoverage
        /\ (response = <<>> \/ response[1].kind # "text")
           => ret.returned.result.description = DefaultDescription

\* C25: the estimatedCoverage of every GeneratedTest returned is an integer
\* from 0 to 100.
C25_CoverageInRange ==
  (ret.op = "generateTestFromSpec" /\ ~ret.pending /\ ~ret.returned.threw)
  => ret.returned.result.estimatedCoverage \in 0..100

\* C27: a chaosTest of an existing product that has resolved reports
\* totalAttempts = concurrency and successCount + failureCount = concurrency,
\* and its finalStock is the stock before the run minus the quantities of the
\* movements accepted during the run, between 0 and the stock before the run.
C27_ChaosAccounting ==
  (ret.op = "chaosTest" /\ ~ret.pending /\ ~ret.threw)
  => LET r == ret.result
         accepted == SliceLast(transactions, r.successCount)
     IN /\ r.totalAttempts = ret.concurrency
        /\ r.successCount + r.failureCount = ret.concurrency
        /\ r.successCount <= Len(transactions)
        /\ \A k \in 1..Len(accepted) : accepted[k].productId = ret.productId
        /\ r.finalStock = ret.initialStock - SumQuantity(accepted)
        /\ r.finalStock = products[ret.productId].stock
        /\ 0 <= r.finalStock
        /\ r.finalStock <= ret.initialStock

\* a run started after an earlier movement of the product has resolved with
\* one movement accepted
C27_Witness ==
  /\ ret.op = "chaosTest"
  /\ ~ret.pending
  /\ ~ret.threw
  /\ ret.initialStock < sampleProducts[ret.productId].stock
  /\ ret.result.successCount = 1
  /\ ret.result.finalStock < ret.initialStock

\* C26: the transactionLog returned by chaosTest holds exactly the movements
\* accepted during that run, whatever was accepted before the run started, so
\* its length is successCount.
C26_LogIsTheRun ==
  (ret.op = "chaosTest" /\ ~ret.pending /\ ~ret.threw)
  => /\ Len(ret.result.transactionLog) = ret.result.successCount
     /\ ret.result.transactionLog = SliceLast(transactions, ret.result.successCount)

\* C30: no two transactions of the log have the same identifier.
C30_UniqueIds ==
  \A i, j \in 1..Len(transactions) : i # j => transactions[i].id # transactions[j].id

\* C28: for an existing product and a quantity that is not negative, an
\* outbound updateStock is accepted exactly when the quantity is at most the
\* current stock, and an inbound or an adjustment is always accepted; at stock
\* 0 every outbound of 1 or more is refused and reports currentStock 0; a
\* refusal leaves the catalog and the log as they were, so a later call with a
\* quantity the stock covers is accepted.
C28_AcceptedIffCovered ==
  [][(/\ ret'.op = "updateStock"
      /\ ret'.productId \in DOMAIN products
      /\ ret'.quantity >= 0)
     => LET stock == products[ret'.productId].stock
            r == ret'.result
        IN /\ ret'.type = "outbound" => (r.success <=> ret'.quantity <= stock)
           /\ ret'.type \in {"inbound", "adjustment"} => r.success
           /\ (ret'.type = "outbound" /\ stock = 0 /\ ret'.quantity >= 1)
              => (~r.success /\ r.currentStock = 0)
           /\ ~r.success => (products' = products /\ transactions' = transactions)]_vars

\* an outbound has just been refused at stock 0
C28_Witness ==
  /\ ret.op = "updateStock"
  /\ ret.productId \in DOMAIN products
  /\ ret.type = "outbound"
  /\ ret.quantity >= 1
  /\ ~ret.result.success
  /\ ret.result.currentStock = 0
  /\ products[ret.productId].stock = 0

\* C29: every product that generateReport lists in lowStockProducts is also
\* listed in orderRecommendations; a product whose stock is below its safety
\* stock has getOrderRecommendation(...).shouldOrder.
C29_LowStockIsRecommended ==
  /\ ret.op = "generateReport"
     => \A i \in 1..Len(ret.result.lowStockProducts) :
          \E j \in 1..Len(ret.result.orderRecommendations) :
            ret.result.orderRecommendations[j] = ret.result.lowStockProducts[i]
  /\ \A productId \in DOMAIN products :
       products[productId].stock < products[productId].safetyStock
         => getOrderRecommendation(products, transactions, productId).shouldOrder

\* C31: the catalog keeps the product ids of the initial catalog, and every
\* product keeps its id, name, sku, safetyStock, leadTimeDays and price; an
\* updateStock call (direct or made by a chaosTest callback) changes at most
\* the stock of the product it names and appends at most one entry to the log.
C31_OnlyStockAndLogTail ==
  [][LET Immutable(P) ==
           /\ DOMAIN P = DOMAIN sampleProducts
           /\ \A p \in DOMAIN P :
                [P[p] EXCEPT !.stock = 0] = [sampleProducts[p] EXCEPT !.stock = 0]
         CallFrame(productId) ==
           /\ \A p \in DOMAIN products : p # productId => products'[p] = products[p]
           /\ \/ transactions' = transactions
              \/ /\ Len(transactions') = Len(transactions) + 1
                 /\ SubSeq(transactions', 1, Len(transactions)) = transactions
     IN /\ Immutable(products')
        /\ ret'.op = "updateStock" => CallFrame(ret'.productId)
        /\ chaos.pc = "mapping" => CallFrame(chaos.productId)]_vars

\* a chaosTest has resolved after a direct updateStock, both accepted
C31_Witness ==
  /\ ret.op = "chaosTest"
  /\ ~ret.pending
  /\ ~ret.threw
  /\ ret.result.successCount >= 1
  /\ Len(transactions) > ret.result.successCount
  /\ products[ret.productId].stock < sampleProducts[ret.productId].stock

\* C32: every chaosTest started on an existing product resolves, with all its
\* attempts counted (totalAttempts = N and successCount + failureCount = N);
\* updateStock returns within the step that calls it, and a callback that is
\* due can always run: it waits on no other call and on nothing outside.
C32_ChaosTestResolves ==
  /\ [](chaos.pc = "mapping" => ENABLED ChaosCallback)
  /\ [](chaos.pc = "awaiting" => ENABLED ChaosResolve)
  /\ (chaos.pc # "idle")
       ~> (/\ chaos.pc = "idle"
           /\ ret.op = "chaosTest"
           /\ ~ret.pending
           /\ ~ret.threw
           /\ ret.result.totalAttempts = ret.concurrency
           /\ ret.result.successCount + ret.result.failureCount = ret.concurrency)

\* a run of one attempt has resolved with that attempt refused
C32_Witness ==
  /\ chaos.pc = "idle"
  /\ ret.op = "chaosTest"
  /\ ~ret.pending
  /\ ~ret.threw
  /\ ret.concurrency >= 1
  /\ ret.result.failureCount >= 1

C34_LogCountsAccepted ==
  [][/\ ret'.op = "updateStock"
        => Len(transactions') = Len(transactions) + (IF ret'.result.success THEN 1 ELSE 0)
     /\ chaos.pc = "mapping"
        => /\ Len(transactions') - Len(transactions) = chaos'.successCount - chaos.successCount
           /\ (chaos'.successCount - chaos.successCount)
                + (chaos'.failureCount - chaos.failureCount) = 1
     /\ ret'.op = "reset" => Len(transactions') = 0
     /\ (ret'.op \notin {"updateStock", "reset"} /\ chaos.pc # "mapping")
        => transactions' = transactions
     /\ ret'.op = "generateReport" => ret'.result.totalTransactions = Len(transactions')]_vars

\* an updateStock of quantity 0 has been accepted and logged as the second
\* entry, leaving the stock as it was
C34_Witness ==
  /\ ret.op = "updateStock"
  /\ ret.quantity = 0
  /\ ret.type # "adjustment"
  /\ ret.result.success
  /\ Len(transactions) = 2
  /\ transactions[2].quantity = 0

\* C35: the sequence a getTransactionHistory call returned still holds, at
\* any later time, exactly the entries it held when the call returned, whether
\* the call was made with a productId or without one.
C35_HistoryIsSnapshot ==
  held.kind = "history" => DerefHistory(transactions, held.array) = held.returned

C37_BatchAllOrNothing ==
  (ret.op = "generateBatch" /\ ~ret.pending)
  => LET Succeeded(k) ==
           /\ ret.outcomes[k] # Unsettled
           /\ ret.outcomes[k].settled = "resolved"
           /\ ret.outcomes[k].content # <<>>
         Failed(k) ==
           /\ ret.outcomes[k] # Unsettled
           /\ \/ ret.outcomes[k].settled = "rejected"
              \/ ret.outcomes[k].content = <<>>
     IN /\ (\A k \in 1..ret.size : Succeeded(k))
           => /\ ~ret.returned.threw
              /\ Len(ret.returned.result) = ret.size
              /\ \A k \in 1..ret.size :
                   ret.returned.result[k] = parseResponse(ret.outcomes[k].content[1].text)
        /\ (\E k \in 1..ret.size : Failed(k)) => ret.returned.threw
        /\ ret.returned.threw => DOMAIN ret.returned = {"threw", "error"}

\* a batch of two has returned its two results, the second request having
\* completed before the first and with a different response
C37_Witness ==
  /\ ret.op = "generateBatch"
  /\ ~ret.pending
  /\ ~ret.returned.threw
  /\ ret.size = 2
  /\ ret.order = <<2, 1>>
  /\ ret.returned.result[1] # ret.returned.result[2]

====
